---- MODULE Spec2Model ----
(***************************************************************************)
(* A model of the ArgueSage debate platform: the debate turn orchestrator  *)
(* (debate_engine.py), the external generation service wrappers            *)
(* (gemini_service.py) and the tournament / room registry and bracket      *)
(* functions of app.py.                                                    *)
(***************************************************************************)
EXTENDS Integers, Sequences, FiniteSets, TLC

\* ------------------------------------------------------------------ bounds
MaxSpeeches == 16
MaxPois == 1
\* longest participant list handed to a bracket builder
MaxBracketParticipants == 5
\* results recorded in one tournament
MaxCompleted == 3
\* matches of a round a result request may name, counted from the first
MaxMatchInputs == 2
\* user speeches a final evaluation goes through
MaxEvaluated == 4
\* debates recorded in one profile
MaxDebates == 2
\* clock seconds that pass while clients start debates
MaxClock == 1
\* speeches a session of the client registry holds
MaxClientSpeeches == 3

\* ------------------------------------------------------- program constants
\* len(debate_format['speech_order']): every format lists 8 speeches
SpeechOrderLen == 8
\* DebateEvaluation.overall_score of _default_evaluation()
DefaultScore == 60

Positions == {"government", "opposition"}
\* the type a client submits: request.form.get('type', 'constructive')
SpeechTypes == {"constructive"}
\* overall_score values the judge model may return (an int, unvalidated)
Scores == {10, 50, 75}
\* the offset _generate_final_evaluation subtracts from each overall_score
ScoreOffset == 15

VARIABLES
    debate_session,  \* the session dict held in active_debates for the client
    active,          \* debate_id in active_debates
    ended,           \* end_debate has been called on the session
    response,        \* what the last call returned to its caller
    participants_in, \* the participant list handed to a bracket builder
    bracket,         \* the bracket the builder returned
    tournaments,     \* tournament id -> tournament
    tournament_brackets, \* legacy registry: tournament code -> bracket
    t_response,      \* what the last tournament call returned
    practice_rooms,  \* room code -> room
    r_response,      \* what the last room call returned
    pc,              \* where each request thread stands in submit_speech
    jpc,             \* where each request thread stands in a join
    user_profile,    \* session['user_profile'] of one client
    p_response,      \* what the last profile call returned
    active_debates,  \* debate id -> session, shared by every client
    current_debate_id, \* client -> session['current_debate_id']
    now              \* int(datetime.now().timestamp()), the clock second

debate_vars == <<debate_session, active, ended, response>>
builder_vars == <<participants_in, bracket>>
tourn_vars == <<tournaments, tournament_brackets, t_response>>
room_vars == <<practice_rooms, r_response>>
thread_vars == <<pc, jpc>>
profile_vars == <<user_profile, p_response>>
client_vars == <<active_debates, current_debate_id, now>>


\* what the operations of one component leave alone
session_vars == <<profile_vars, client_vars>>
not_debate == <<builder_vars, tourn_vars, room_vars, thread_vars, session_vars>>
not_builder == <<debate_vars, tourn_vars, room_vars, thread_vars, session_vars>>
not_tourn == <<debate_vars, builder_vars, room_vars, thread_vars, session_vars>>
not_room == <<debate_vars, builder_vars, tourn_vars, thread_vars, session_vars>>
not_profile == <<debate_vars, builder_vars, tourn_vars, room_vars, thread_vars,
                 client_vars>>
not_client == <<debate_vars, builder_vars, tourn_vars, room_vars, thread_vars,
                profile_vars>>

vars == <<debate_vars, builder_vars, tourn_vars, room_vars, thread_vars,
          session_vars>>

\* the request threads of the threaded development server (app.run)
Threads == {"t1", "t2"}

\* ------------------------------------------------------- external service
\* GeminiService.generate_ai_debater_response: the model's text, or the
\* fixed apology when the call raises (a timeout raises like any failure).
generate_ai_debater_response(gen_ok) ==
    IF gen_ok THEN "generated" ELSE "technical_difficulties"

\* GeminiService.evaluate_speech: the judge's score, or the default
\* evaluation when the call raises.
evaluate_speech(eval_ok, score) ==
    IF eval_ok THEN [overall_score |-> score, default |-> FALSE]
               ELSE [overall_score |-> DefaultScore, default |-> TRUE]

\* ------------------------------------------------------------ the engine
NoSession ==
    [round |-> 0, speeches |-> <<>>, pois |-> <<>>, status |-> "none",
     current_speaker |-> "none", user_position |-> "none"]

\* the final evaluation dict; overall_score is kept in tenths
NoEvaluation == [overall_score |-> 0, points |-> 0, speech_count |-> 0]

NoResponse ==
    [op |-> "none", code |-> 0, ai_response |-> "none", default_eval |-> FALSE,
     evaluation |-> NoEvaluation]

Speech(speaker, type, content) ==
    [speaker |-> speaker, type |-> type, content |-> content]

\* DebateEngine.start_debate: first_speaker is 'government' in every format
StartDebate(user_position, gen_ok) ==
    LET first == IF user_position = "government" THEN "user" ELSE "ai"
        s0 == [round |-> 1, speeches |-> <<>>, pois |-> <<>>,
               status |-> "in_progress", current_speaker |-> first,
               user_position |-> user_position]
    IN  IF first = "ai"
        THEN [s0 EXCEPT
                !.speeches = Append(@, Speech("ai", "constructive",
                                    generate_ai_debater_response(gen_ok))),
                !.current_speaker = "user",
                !.round = @ + 1]
        ELSE s0

\* a slip of the guard of line 91: <= lets round pass the length
DebateContinuesOffByOne(s) == s.round <= SpeechOrderLen

\* the guard of line 91: the debate continues
DebateContinues(s) == s.round < SpeechOrderLen

\* the check of line 102: the debate should end
DebateShouldEnd(s) == s.round >= SpeechOrderLen

\* process_user_speech as a transaction: a failed generation rolls the
\* session back instead of appending the fallback text
ProcessUserSpeechRollback(s, speech_type, gen_ok) ==
    IF gen_ok
    THEN LET s1 == [s EXCEPT !.speeches = Append(@, Speech("user", speech_type, "text"))]
             s2 == IF DebateContinues(s1)
                   THEN [s1 EXCEPT
                           !.speeches = Append(@, Speech("ai", "constructive", "generated")),
                           !.round = @ + 1]
                   ELSE s1
         IN  IF DebateShouldEnd(s2) THEN [s2 EXCEPT !.status = "completed"] ELSE s2
    ELSE s

\* DebateEngine.process_user_speech: the session after the call
ProcessUserSpeech(s, speech_type, gen_ok) ==
    LET s1 == [s EXCEPT !.speeches = Append(@, Speech("user", speech_type, "text"))]
        s2 == IF DebateContinues(s1)
              THEN [s1 EXCEPT
                      !.speeches = Append(@, Speech("ai", "constructive",
                                          generate_ai_debater_response(gen_ok))),
                      !.round = @ + 1]
              ELSE s1
    IN  IF DebateShouldEnd(s2) THEN [s2 EXCEPT !.status = "completed"] ELSE s2

\* the ai_response entry of process_user_speech's result
AiResponseOf(s, gen_ok) ==
    IF DebateContinues(s) THEN generate_ai_debater_response(gen_ok) ELSE "none"

\* what the model's reply to a POI may carry on its DECISION line, and
\* "error" for a call that raises
PoiReplies == {"ACCEPT", "DECLINE", "MAYBE", "error"}

\* GeminiService._parse_poi_response: a decision other than ACCEPT or
\* DECLINE becomes DECLINE
parse_poi_response(reply) ==
    IF reply \notin {"ACCEPT", "DECLINE"} THEN "DECLINE" ELSE reply

\* GeminiService.generate_poi_response: the canned decline when the call raises
generate_poi_response(reply) ==
    IF reply = "error" THEN "DECLINE" ELSE parse_poi_response(reply)

\* process_poi recording accepted points only
ProcessPoiAcceptedOnly(s, reply) ==
    IF generate_poi_response(reply) = "ACCEPT"
    THEN [s EXCEPT !.pois = Append(@, [ai_decision |-> "ACCEPT"])]
    ELSE s

\* DebateEngine.process_poi: appends one record whatever the decision
ProcessPoi(s, reply) ==
    [s EXCEPT !.pois = Append(@, [ai_decision |-> generate_poi_response(reply)])]

\* DebateEngine.end_debate: forces the status
EndDebate(s) == [s EXCEPT !.status = "completed"]

\* user_speeches of _generate_final_evaluation
UserSpeeches(s) == SelectSeq(s.speeches, LAMBDA speech : speech.speaker = "user")

\* the values total_score can hold after the loop over k user speeches: each
\* speech is evaluated again and adds overall_score - 15
TotalScores[k \in 0..MaxEvaluated] ==
    IF k = 0 THEN {0}
    ELSE {total + (evaluate_speech(eval_ok, score).overall_score - ScoreOffset) :
             total \in TotalScores[k - 1], eval_ok \in BOOLEAN, score \in Scores}

\* round(total / k, 1) in tenths: the nearest tenth, a tie going to the even one
RoundToTenths(total, k) ==
    LET q == (10 * total) \div k
        r == (10 * total) % k
    IN  IF 2 * r < k THEN q
        ELSE IF 2 * r > k THEN q + 1
        ELSE IF q % 2 = 0 THEN q ELSE q + 1

\* int(x) for x = n / d: truncation toward zero
IntOf(n, d) == IF n >= 0 THEN n \div d ELSE -((-n) \div d)

\* the points conversion rounding the halved average down
FinalEvaluationFloor(s, total_score) ==
    LET k == Len(UserSpeeches(s))
    IN  IF k = 0 THEN NoEvaluation
        ELSE [overall_score |-> RoundToTenths(total_score, k),
              points |-> total_score \div (2 * k),
              speech_count |-> k]

\* DebateEngine._generate_final_evaluation given the total the loop reached
FinalEvaluation(s, total_score) ==
    LET k == Len(UserSpeeches(s))
    IN  IF k = 0 THEN NoEvaluation
        ELSE [overall_score |-> RoundToTenths(total_score, k),
              points |-> IntOf(total_score, 2 * k),
              speech_count |-> k]

\* ------------------------------------------------------ bracket builders
\* names a participant list is drawn from
BracketNames == {"A", "B", "C", "D", "E", "F"}
\* Python's None in a slot or a winner field
None == "None"
NoBracket == [rounds |-> <<>>, type |-> "none"]

RECURSIVE CeilLog2(_)
\* math.ceil(math.log2(n)) for n >= 1
CeilLog2(n) == IF n <= 1 THEN 0 ELSE 1 + CeilLog2((n + 1) \div 2)

RECURSIVE Pow2(_)
Pow2(k) == IF k = 0 THEN 1 ELSE 2 * Pow2(k - 1)

RECURSIVE PadWithByes(_, _)
\* while len(participant_names) < bracket_size: append "BYE"
PadWithByes(names, bracket_size) ==
    IF Len(names) < bracket_size
    THEN PadWithByes(Append(names, "BYE"), bracket_size)
    ELSE names

RECURSIVE DropNone(_)
\* [p for p in next_round_participants if p]
DropNone(seq) ==
    IF seq = <<>> THEN <<>>
    ELSE IF Head(seq) = None THEN DropNone(Tail(seq))
         ELSE <<Head(seq)>> \o DropNone(Tail(seq))

\* f"Round {round_number}"
RoundLabel(round_number) ==
    CASE round_number = 1 -> "Round 1"
      [] round_number = 2 -> "Round 2"
      [] round_number = 3 -> "Round 3"
      [] OTHER -> "Round 4"

\* the name given to a round holding len(current_participants) entries
RoundName(len, round_number) ==
    IF len = 4 THEN "Semi-Final"
    ELSE IF len = 2 THEN "Final" ELSE RoundLabel(round_number)

\* the pairing loop leaving a bye match to be played like any other
EliminationMatchByePending(current, round_number, k) ==
    LET participant1 == current[2 * k - 1]
        participant2 == IF 2 * k <= Len(current) THEN current[2 * k] ELSE "BYE"
    IN  [id |-> <<round_number, k>>,
         participant1 |-> participant1,
         participant2 |-> participant2,
         winner |-> IF participant2 = "BYE" THEN participant1 ELSE None,
         status |-> IF round_number = 1 THEN "pending" ELSE "waiting",
         scores |-> <<>>]

\* one match of the pairing loop; the id f"r{round_number}_m{k}" is the pair
EliminationMatch(current, round_number, k) ==
    LET participant1 == current[2 * k - 1]
        participant2 == IF 2 * k <= Len(current) THEN current[2 * k] ELSE "BYE"
    IN  [id |-> <<round_number, k>>,
         participant1 |-> participant1,
         participant2 |-> participant2,
         winner |-> IF participant2 = "BYE" THEN participant1 ELSE None,
         status |-> IF participant2 = "BYE" THEN "completed"
                    ELSE IF round_number = 1 THEN "pending" ELSE "waiting",
         scores |-> <<>>]

\* next_round_participants: the bye winner, or None "to be filled by winner"
NextRoundSlot(match) ==
    IF match.participant2 = "BYE" THEN match.participant1 ELSE None

RECURSIVE EliminationRounds(_, _)
\* the while len(current_participants) > 1 loop
EliminationRounds(current, round_number) ==
    IF Len(current) <= 1 THEN <<>>
    ELSE LET matches == [k \in 1..((Len(current) + 1) \div 2) |->
                            EliminationMatch(current, round_number, k)]
             next_round_participants == [k \in 1..Len(matches) |-> NextRoundSlot(matches[k])]
         IN  <<[round_number |-> round_number,
                name |-> RoundName(Len(current), round_number),
                matches |-> matches,
                status |-> IF round_number = 1 THEN "pending" ELSE "waiting"]>>
             \o EliminationRounds(DropNone(next_round_participants), round_number + 1)

\* app.create_single_elimination_bracket
create_single_elimination_bracket(participants) ==
    IF Len(participants) < 2
    THEN [rounds |-> <<>>, type |-> "single_elimination"]
    ELSE [rounds |-> EliminationRounds(
                        PadWithByes(participants, Pow2(CeilLog2(Len(participants)))), 1),
          type |-> "single_elimination"]

\* app.create_double_elimination_bracket: the single elimination structure
create_double_elimination_bracket(participants) ==
    create_single_elimination_bracket(participants)

\* the inner loop starting at 0: every ordered pair of distinct indices
RoundRobinPairsBothOrders(n) ==
    LET pairs == {<<i, j>> : i \in 1..n, j \in 1..n}
        before(p, q) == p[1] < q[1] \/ (p[1] = q[1] /\ p[2] < q[2])
        S == {p \in pairs : p[1] # p[2]}
    IN  [k \in 1..Cardinality(S) |->
            CHOOSE p \in S : Cardinality({q \in S : before(q, p)}) = k - 1]

\* the unordered pairs (i, j), i < j, in the order of the two nested loops
RoundRobinPairs(n) ==
    LET pairs == {<<i, j>> : i \in 1..n, j \in 1..n}
        before(p, q) == p[1] < q[1] \/ (p[1] = q[1] /\ p[2] < q[2])
        S == {p \in pairs : p[1] < p[2]}
    IN  [k \in 1..Cardinality(S) |->
            CHOOSE p \in S : Cardinality({q \in S : before(q, p)}) = k - 1]

\* app.create_round_robin_bracket; the id f"rr_m{k}" is the pair <<0, k>>
create_round_robin_bracket(participants) ==
    LET pairs == RoundRobinPairs(Len(participants))
        matches == [k \in 1..Len(pairs) |->
                      [id |-> <<0, k>>,
                       participant1 |-> participants[pairs[k][1]],
                       participant2 |-> participants[pairs[k][2]],
                       winner |-> None,
                       status |-> "pending",
                       scores |-> <<>>]]
    IN  [rounds |-> <<[round_number |-> 1, name |-> "Round Robin",
                       matches |-> matches, status |-> "pending"]>>,
         type |-> "round_robin"]

TournamentTypes == {"single_elimination", "double_elimination", "round_robin"}

\* app.create_elimination_bracket
create_elimination_bracket(participants, tournament_type) ==
    IF tournament_type = "single_elimination"
    THEN create_single_elimination_bracket(participants)
    ELSE IF tournament_type = "double_elimination"
         THEN create_double_elimination_bracket(participants)
         ELSE create_round_robin_bracket(participants)

\* lists of distinct names, of length 0..MaxBracketParticipants
ParticipantLists ==
    UNION {{q \in [1..n -> BracketNames] : \A i, j \in 1..n : i # j => q[i] # q[j]}
           : n \in 0..MaxBracketParticipants}

\* a caller builds a bracket of some kind from the list
build_bracket ==
    /\ bracket = NoBracket
    /\ \E tournament_type \in TournamentTypes :
         bracket' = create_elimination_bracket(participants_in, tournament_type)
    /\ UNCHANGED <<participants_in, not_builder>>

\* ------------------------------------------------------------ tournaments
\* ids generate_tournament_code() hands out, and ids a request may carry
TournamentCodes == {"T1"}
TournamentIdInputs == {"T1", "T9"}
LegacyCodes == {"B1"}
LegacyCodeInputs == {"B1", "B9"}
\* participant names a request may carry
JoinNames == {"Ann", "ann", "Bob", "Cy", "Dee"}
\* session tournament_name of the creator
CreatorNames == {"Ann"}
\* int(tournament_data.get('max_participants', 16))
MaxParticipantsInputs == {3, 4}
\* random.randint(60, 90) for each side: a win of either side and a tie
ScorePairs == {<<90, 60>>, <<60, 90>>, <<60, 60>>}
\* tournament_type values a create request carries
TournamentTypeInputs == {"single_elimination", "round_robin"}
\* a match id no bracket holds
AbsentMatchId == <<9, 9>>

\* str.lower()
Lower(name) == IF name = "Ann" THEN "ann"
               ELSE IF name = "Bob" THEN "bob"
               ELSE IF name = "Cy" THEN "cy"
               ELSE IF name = "Dee" THEN "dee"
               ELSE name

NoTournaments == [id \in {} |-> 0]

\* a JSON reply: the status code, the error or message text, and the winner
\* and scores a completed match reports
NoTResponse ==
    [op |-> "none", code |-> 0, message |-> "", winner |-> None, scores |-> <<>>,
     leaderboard |-> <<>>]

Reply(op, code, message) ==
    [NoTResponse EXCEPT !.op = op, !.code = code, !.message = message]

\* the participant dict of create_tournament and join_tournament
\* win_rate is kept in tenths of a percent; is_current_user is None while
\* the dict has no such key, then "True" or "False"
NewParticipant(name) ==
    [name |-> name, matches_played |-> 0, matches_won |-> 0, total_points |-> 0,
     win_rate |-> 0, is_current_user |-> None]

\* the tournament dict of create_tournament
NewTournament(creator_name, max_participants, tournament_type) ==
    [status |-> "registration",
     max_participants |-> max_participants,
     tournament_type |-> tournament_type,
     participants |-> <<NewParticipant(creator_name)>>,
     brackets |-> NoBracket,
     completed_matches |-> 0,
     total_matches |-> 0]

RECURSIVE SumLens(_)
SumLens(rounds) ==
    IF rounds = <<>> THEN 0 ELSE Len(Head(rounds).matches) + SumLens(Tail(rounds))

\* app.start_tournament: the tournament once started
StartTournament(t) ==
    LET participants == [i \in 1..Len(t.participants) |-> t.participants[i].name]
        b == create_elimination_bracket(participants, t.tournament_type)
    IN  [t EXCEPT !.brackets = b,
                  !.status = "active",
                  !.total_matches = SumLens(b.rounds)]

\* the name check comparing the names as typed
NameTakenCaseSensitive(participants, name) ==
    \E i \in 1..Len(participants) : participants[i].name = name

\* the name check of join_tournament and join_practice_room
NameTaken(participants, name) ==
    \E i \in 1..Len(participants) : Lower(participants[i].name) = Lower(name)

\* the threshold of join_tournament
StartThreshold == 4

\* join_tournament past its checks: append, then start at the threshold
JoinTournament(t, name) ==
    LET t1 == [t EXCEPT !.participants = Append(@, NewParticipant(name))]
    IN  IF Len(t1.participants) >= StartThreshold THEN StartTournament(t1) ELSE t1

\* the message join_tournament returns, "" when the join is accepted
JoinTournamentError(id, name) ==
    IF id \notin DOMAIN tournaments THEN "Tournament not found"
    ELSE IF tournaments[id].status # "registration" THEN "Tournament registration is closed"
    ELSE IF Len(tournaments[id].participants) >= tournaments[id].max_participants
         THEN "Tournament is full"
    ELSE IF NameTaken(tournaments[id].participants, name)
         THEN "Name already taken in this tournament"
    ELSE ""

\* positions <<round, match>> of the matches of a bracket
MatchPositions(b) ==
    UNION {{<<r, m>> : m \in 1..Len(b.rounds[r].matches)} : r \in 1..Len(b.rounds)}

\* the search loop of complete_tournament_match: the first match with the id
FindMatch(b, match_id) ==
    LET hits == {pos \in MatchPositions(b) : b.rounds[pos[1]].matches[pos[2]].id = match_id}
    IN  IF hits = {} THEN <<>>
        ELSE CHOOSE pos \in hits :
                \A q \in hits : pos[1] < q[1] \/ (pos[1] = q[1] /\ pos[2] <= q[2])

\* a judge that names no winner when the scores are level
MatchWinnerNoTie(match, s1, s2) ==
    IF s1 > s2 THEN match.participant1
    ELSE IF s2 > s1 THEN match.participant2 ELSE None

\* winner = participant1 if its score is greater, else participant2
MatchWinner(match, s1, s2) ==
    IF s1 > s2 THEN match.participant1 ELSE match.participant2

\* the stats update with the else branch crediting participant1's score
UpdateParticipantWrongScore(p, match, s1, s2, winner) ==
    IF p.name = match.participant1
    THEN [p EXCEPT !.matches_played = @ + 1,
                   !.total_points = @ + s1,
                   !.matches_won = IF winner = match.participant1 THEN @ + 1 ELSE @]
    ELSE IF p.name = match.participant2
    THEN [p EXCEPT !.matches_played = @ + 1,
                   !.total_points = @ + s1,
                   !.matches_won = IF winner = match.participant2 THEN @ + 1 ELSE @]
    ELSE p

\* the per-participant stats update of complete_tournament_match
UpdateParticipant(p, match, s1, s2, winner) ==
    IF p.name = match.participant1
    THEN [p EXCEPT !.matches_played = @ + 1,
                   !.total_points = @ + s1,
                   !.matches_won = IF winner = match.participant1 THEN @ + 1 ELSE @]
    ELSE IF p.name = match.participant2
    THEN [p EXCEPT !.matches_played = @ + 1,
                   !.total_points = @ + s2,
                   !.matches_won = IF winner = match.participant2 THEN @ + 1 ELSE @]
    ELSE p

\* complete_tournament_match past its checks: the tournament after the call
CompleteMatch(t, pos, s1, s2) ==
    LET match == t.brackets.rounds[pos[1]].matches[pos[2]]
        winner == MatchWinner(match, s1, s2)
    IN  [t EXCEPT
           !.brackets.rounds[pos[1]].matches[pos[2]] =
               [match EXCEPT !.winner = winner, !.status = "completed",
                             !.scores = <<s1, s2>>],
           !.completed_matches = @ + 1,
           !.participants = [i \in 1..Len(t.participants) |->
                               UpdateParticipant(t.participants[i], match, s1, s2, winner)]]

\* app.create_tournament
create_tournament ==
    /\ \E id \in TournamentCodes \ DOMAIN tournaments,
          creator_name \in CreatorNames,
          max_participants \in MaxParticipantsInputs,
          tournament_type \in TournamentTypeInputs :
         /\ tournaments' = (id :> NewTournament(creator_name, max_participants, tournament_type))
                              @@ tournaments
         /\ t_response' = Reply("create", 200, "created")
    /\ UNCHANGED <<tournament_brackets, not_tourn>>

\* join_tournament with the name check moved after the append
join_tournament_late_check(id, name) ==
    LET error == JoinTournamentError(id, name)
    IN  IF error = "Name already taken in this tournament"
        THEN /\ t_response' = Reply("join", 400, error)
             /\ tournaments' = [tournaments EXCEPT ![id] = JoinTournament(@, name)]
        ELSE IF error # ""
        THEN /\ t_response' = Reply("join", 400, error)
             /\ UNCHANGED tournaments
        ELSE /\ tournaments' = [tournaments EXCEPT ![id] = JoinTournament(@, name)]
             /\ t_response' = Reply("join", 200, "Successfully joined tournament")

\* app.join_tournament_route / join_tournament for one request
join_tournament_of(id, name) ==
    LET error == JoinTournamentError(id, name)
    IN  IF error # ""
        THEN /\ t_response' = Reply("join", 400, error)
             /\ UNCHANGED tournaments
        ELSE /\ tournaments' = [tournaments EXCEPT ![id] = JoinTournament(@, name)]
             /\ t_response' = Reply("join", 200, "Successfully joined tournament")

\* app.join_tournament_route
join_tournament ==
    /\ \E id \in TournamentIdInputs, name \in JoinNames :
         join_tournament_of(id, name)
    /\ UNCHANGED <<tournament_brackets, not_tourn>>

\* the match ids a request may carry for tournament t
MatchIdInputs(b) ==
    {b.rounds[pos[1]].matches[pos[2]].id :
        pos \in {q \in MatchPositions(b) : q[2] <= MaxMatchInputs}} \union {AbsentMatchId}

\* the keys of the scores dict, which the judgment line indexes by the
\* winner's name
ScoreKeys == {"participant1", "participant2"}

\* app.complete_tournament_match for one request
complete_tournament_match_of(id, match_id, speeches_given) ==
    IF id \notin DOMAIN tournaments
    THEN /\ t_response' = Reply("complete", 404, "Tournament not found")
         /\ UNCHANGED tournaments
    ELSE LET t == tournaments[id]
             pos == FindMatch(t.brackets, match_id)
         IN  IF ~speeches_given
             THEN /\ t_response' = Reply("complete", 400, "Both participant speeches are required")
                  /\ UNCHANGED tournaments
             ELSE IF t.brackets = NoBracket
             THEN \* tournament['brackets'] is None: the TypeError is caught
                  /\ t_response' = Reply("complete", 500, "Failed to complete match")
                  /\ UNCHANGED tournaments
             ELSE IF pos = <<>>
             THEN /\ t_response' = Reply("complete", 404, "Match not found")
                  /\ UNCHANGED tournaments
             ELSE /\ t.completed_matches < MaxCompleted
                  /\ \E scores \in ScorePairs :
                       LET winner == MatchWinner(t.brackets.rounds[pos[1]].matches[pos[2]],
                                                 scores[1], scores[2])
                       IN  /\ tournaments' = [tournaments EXCEPT
                                                ![id] = CompleteMatch(t, pos, scores[1], scores[2])]
                           /\ t_response' =
                                 IF winner \in ScoreKeys
                                 THEN [Reply("complete", 200, "Match completed") EXCEPT
                                         !.winner = winner, !.scores = scores]
                                 ELSE \* scores[winner] raises KeyError once the match,
                                      \* the counter and the stats are written
                                      Reply("complete", 500, "Failed to complete match")

\* app.complete_tournament_match
complete_tournament_match ==
    /\ \E id \in TournamentIdInputs, speeches_given \in BOOLEAN :
         \E match_id \in (IF id \in DOMAIN tournaments
                           THEN MatchIdInputs(tournaments[id].brackets)
                           ELSE {AbsentMatchId}) :
            complete_tournament_match_of(id, match_id, speeches_given)
    /\ UNCHANGED <<tournament_brackets, not_tourn>>

\* ------------------------------------------------------------ leaderboard
\* tournaments.values(): the tournaments in the order they were created
BoardCodes == <<"T1", "T2">>
\* tournament_id and sort values a leaderboard request may carry; "" is no id
BoardIdInputs == {"", "T1", "T2", "T9"}
SortInputs == {"points", "wins", "winrate"}
\* session tournament_name of the caller, 'You' when it has none
CurrentUserInputs == {"Ann", "You"}

\* the participants of every tournament, in iteration order
AllRecords(ts) ==
    LET ids == SelectSeq(BoardCodes, LAMBDA id : id \in DOMAIN ts)
        RECURSIVE Flatten(_)
        Flatten(seq) == IF seq = <<>> THEN <<>>
                        ELSE ts[Head(seq)].participants \o Flatten(Tail(seq))
    IN  Flatten(ids)

\* the position of the entry named name in all_participants, 0 when absent
ExistingEntry(all_participants, name) ==
    IF \E i \in 1..Len(all_participants) : all_participants[i].name = name
    THEN CHOOSE i \in 1..Len(all_participants) :
            /\ all_participants[i].name = name
            /\ \A j \in 1..(i - 1) : all_participants[j].name # name
    ELSE 0

\* participant.copy() with the two tournament counters
NewEntry(participant) ==
    [name |-> participant.name,
     matches_played |-> participant.matches_played,
     matches_won |-> participant.matches_won,
     total_points |-> participant.total_points,
     win_rate |-> participant.win_rate,
     is_current_user |-> participant.is_current_user,
     tournaments_participated |-> 1,
     tournaments_won |-> IF participant.matches_won > 0 THEN 1 ELSE 0]

\* the aggregation keeping the first record's points on a collision
MergeEntryKeepFirst(existing, participant) ==
    [existing EXCEPT
        !.matches_played = @ + participant.matches_played,
        !.matches_won = @ + participant.matches_won,
        !.tournaments_participated = @ + 1,
        !.tournaments_won = IF participant.matches_won > 0 THEN @ + 1 ELSE @]

\* the aggregation of a record into the entry of the same name
MergeEntry(existing, participant) ==
    [existing EXCEPT
        !.total_points = @ + participant.total_points,
        !.matches_played = @ + participant.matches_played,
        !.matches_won = @ + participant.matches_won,
        !.tournaments_participated = @ + 1,
        !.tournaments_won = IF participant.matches_won > 0 THEN @ + 1 ELSE @]

RECURSIVE GlobalFold(_, _)
\* the two nested loops of the global scope over the records still to visit
GlobalFold(all_participants, records) ==
    IF records = <<>> THEN all_participants
    ELSE LET participant == Head(records)
             i == ExistingEntry(all_participants, participant.name)
         IN  GlobalFold(IF i # 0
                        THEN [all_participants EXCEPT ![i] = MergeEntry(@, participant)]
                        ELSE Append(all_participants, NewEntry(participant)),
                        Tail(records))

\* round((matches_won / matches_played) * 100, 1) in tenths, 0.0 with no match
WinRate(p) ==
    IF p.matches_played > 0 THEN RoundToTenths(100 * p.matches_won, p.matches_played) ELSE 0

\* the sort key of a leaderboard entry
SortKey(p, sort_by) ==
    IF sort_by = "points" THEN p.total_points
    ELSE IF sort_by = "wins" THEN p.matches_won
    ELSE p.win_rate

RECURSIVE InsertDescending(_, _, _)
\* x ahead of the first entry whose key is not greater than its own
InsertDescending(x, sorted, sort_by) ==
    IF sorted = <<>> THEN <<x>>
    ELSE IF SortKey(Head(sorted), sort_by) > SortKey(x, sort_by)
         THEN <<Head(sorted)>> \o InsertDescending(x, Tail(sorted), sort_by)
         ELSE <<x>> \o sorted

RECURSIVE SortDescending(_, _)
\* list.sort(key=..., reverse=True): descending, equal keys keep their order
SortDescending(seq, sort_by) ==
    IF seq = <<>> THEN <<>>
    ELSE InsertDescending(Head(seq), SortDescending(Tail(seq), sort_by), sort_by)

\* the win rate loop and the route's is_current_user loop over one list
Annotate(seq, current_user_name) ==
    [i \in 1..Len(seq) |->
        [seq[i] EXCEPT !.win_rate = WinRate(seq[i]),
                       !.is_current_user = IF seq[i].name = current_user_name
                                           THEN "True" ELSE "False"]]

\* app.get_tournament_leaderboard_route for one request
get_tournament_leaderboard_of(tournament_id, sort_by, current_user_name) ==
    IF tournament_id # ""
    THEN IF tournament_id \in DOMAIN tournaments
         THEN \* participants[:] copies the list, not the dicts: both loops
              \* write into the records the tournament holds
              LET written == Annotate(tournaments[tournament_id].participants,
                                      current_user_name)
              IN  /\ tournaments' = [tournaments EXCEPT
                                       ![tournament_id].participants = written]
                  /\ t_response' = [Reply("leaderboard", 200, "") EXCEPT
                                      !.leaderboard = SortDescending(written, sort_by)]
         ELSE /\ t_response' = Reply("leaderboard", 200, "")
              /\ UNCHANGED tournaments
    ELSE /\ UNCHANGED tournaments
         /\ t_response' = [Reply("leaderboard", 200, "") EXCEPT
                !.leaderboard = SortDescending(
                    Annotate(GlobalFold(<<>>, AllRecords(tournaments)), current_user_name),
                    sort_by)]

\* app.get_tournament_leaderboard_route
get_tournament_leaderboard_route ==
    /\ \E tournament_id \in BoardIdInputs, sort_by \in SortInputs,
          current_user_name \in CurrentUserInputs :
         get_tournament_leaderboard_of(tournament_id, sort_by, current_user_name)
    /\ UNCHANGED <<tournament_brackets, not_tourn>>

\* results recorded in each tournament of a registry a leaderboard is asked of
MaxBoardCompleted == 1

\* a tournament after its creator and three joins, which start it
JoinedTournament(names, tournament_type) ==
    JoinTournament(JoinTournament(JoinTournament(
        NewTournament(names[1], 4, tournament_type), names[2]), names[3]), names[4])

\* the scores of the results a leaderboard is asked after: a win and a tie
BoardScorePairs == {<<90, 60>>, <<60, 60>>}

\* the tournaments complete_tournament_match makes of those of S in one call
AfterOneResult(S) ==
    UNION {{CompleteMatch(t, pos, scores[1], scores[2]) :
               pos \in MatchPositions(t.brackets), scores \in BoardScorePairs} : t \in S}

RECURSIVE AfterResults(_, _)
\* the tournaments reached from those of S by at most n results
AfterResults(S, n) ==
    IF n = 0 THEN S ELSE S \union AfterResults(AfterOneResult(S), n - 1)

\* the registries a leaderboard is asked of: one tournament, or two sharing
\* three names, each started by its fourth join and played or not
BoardRegistries ==
    LET first == AfterResults({JoinedTournament(<<"Ann", "Bob", "Cy", "Dee">>,
                                                "single_elimination")}, MaxBoardCompleted)
        second == AfterResults({JoinedTournament(<<"Dee", "ann", "Bob", "Cy">>,
                                                 "single_elimination")}, MaxBoardCompleted)
                  \union {JoinTournament(NewTournament("Bob", 4, "round_robin"), "Ann")}
    IN  {("T1" :> t) : t \in first}
        \union {("T1" :> t) @@ ("T2" :> u) : t \in first, u \in second}

\* ------------------------------------------------- legacy bracket registry
NoLegacy == [code \in {} |-> 0]
\* participant lists a legacy create request may carry
LegacyLists == {<<"A", "B">>, <<"A", "B", "C">>, <<"A", "B", "C", "D">>}

\* random.shuffle: any order of the list
Shuffles(seq) ==
    {q \in [1..Len(seq) -> {seq[i] : i \in 1..Len(seq)}] :
        \A i, j \in 1..Len(seq) : i # j => q[i] # q[j]}

\* the first round of create_tournament_bracket: sequential pairs, an odd
\* last participant gets no match
LegacyFirstRound(participants_list) ==
    [k \in 1..(Len(participants_list) \div 2) |->
        [id |-> <<1, k>>,
         participant1 |-> participants_list[2 * k - 1],
         participant2 |-> participants_list[2 * k],
         winner |-> None,
         status |-> "pending",
         scores |-> <<>>]]

\* the bracket dict of create_tournament_bracket
LegacyBracket(participants_list) ==
    [participants |-> participants_list,
     rounds |-> <<[round_number |-> 1, name |-> "First Round",
                   matches |-> LegacyFirstRound(participants_list),
                   status |-> "pending"]>>,
     status |-> "upcoming",
     type |-> "legacy"]

\* app.api_create_tournament / create_tournament_bracket
create_tournament_bracket ==
    /\ \E code \in LegacyCodes, participants \in LegacyLists :
         \E participants_list \in Shuffles(participants) :
           /\ tournament_brackets' =
                 [c \in DOMAIN tournament_brackets \cup {code} |->
                    IF c = code THEN LegacyBracket(participants_list)
                    ELSE tournament_brackets[c]]
           /\ t_response' = Reply("legacy_create", 200, "created")
    /\ UNCHANGED <<tournaments, not_tourn>>

\* the update loop of api_update_match_result
UpdateLegacyMatch(b, match_id, winner) ==
    [b EXCEPT !.rounds =
        [r \in 1..Len(b.rounds) |->
            [b.rounds[r] EXCEPT !.matches =
                [m \in 1..Len(b.rounds[r].matches) |->
                    IF b.rounds[r].matches[m].id = match_id
                    THEN [b.rounds[r].matches[m] EXCEPT !.winner = winner,
                                                        !.status = "completed"]
                    ELSE b.rounds[r].matches[m]]]]]

\* app.api_update_match_result for one request with a non-empty winner
api_update_match_result_of(code, match_id, winner) ==
    IF code \notin DOMAIN tournament_brackets
    THEN /\ t_response' = Reply("legacy_result", 404, "Tournament not found")
         /\ UNCHANGED tournament_brackets
    ELSE /\ tournament_brackets' =
               [tournament_brackets EXCEPT ![code] = UpdateLegacyMatch(@, match_id, winner)]
         /\ t_response' = Reply("legacy_result", 200, "Match result updated successfully")

\* match ids and winners a legacy result request may carry
LegacyMatchIdInputs == {<<1, 1>>, <<1, 2>>, AbsentMatchId}
LegacyWinnerInputs == {"A", "B", "C"}

\* app.api_update_match_result
api_update_match_result ==
    /\ \E code \in LegacyCodeInputs, match_id \in LegacyMatchIdInputs,
          winner \in LegacyWinnerInputs :
         api_update_match_result_of(code, match_id, winner)
    /\ UNCHANGED <<tournaments, not_tourn>>

\* ------------------------------------------------------------ practice rooms
RoomCodes == {"R1"}
\* int(max_participants) of a create request: the value is not validated
RoomMaxInputs == {0, 2}
NoRooms == [code \in {} |-> 0]

\* the room dict of create_practice_room
NewRoom(creator_name, max_participants) ==
    [max_participants |-> max_participants,
     participants |-> <<[name |-> creator_name, role |-> "host"]>>]

\* the message join_practice_room returns, "" when the join is accepted
JoinRoomError(room_code, participant_name) ==
    IF room_code \notin DOMAIN practice_rooms THEN "Room not found"
    ELSE IF Len(practice_rooms[room_code].participants) >= practice_rooms[room_code].max_participants
         THEN "Room is full"
    ELSE IF NameTaken(practice_rooms[room_code].participants, participant_name)
         THEN "Name already taken in this room"
    ELSE ""

\* join_practice_room past its checks
JoinRoom(room, participant_name) ==
    [room EXCEPT !.participants = Append(@, [name |-> participant_name, role |-> "participant"])]

\* app.api_create_room / create_practice_room
create_practice_room ==
    /\ \E room_code \in RoomCodes \ DOMAIN practice_rooms,
          creator_name \in CreatorNames,
          max_participants \in RoomMaxInputs :
         practice_rooms' = (room_code :> NewRoom(creator_name, max_participants)) @@ practice_rooms
    /\ r_response' = Reply("create_room", 200, "created")
    /\ UNCHANGED not_room

\* room codes and names a join request may carry
RoomCodeInputs == {"R1", "R9"}

\* app.api_join_room / join_practice_room for one request
join_practice_room_of(room_code, participant_name) ==
    LET error == JoinRoomError(room_code, participant_name)
    IN  IF error # ""
        THEN /\ r_response' = Reply("join_room", 400, error)
             /\ UNCHANGED practice_rooms
        ELSE /\ practice_rooms' = [practice_rooms EXCEPT
                                      ![room_code] = JoinRoom(@, participant_name)]
             /\ r_response' = Reply("join_room", 200, "Successfully joined room")

\* app.api_join_room
join_practice_room ==
    /\ \E room_code \in RoomCodeInputs, participant_name \in JoinNames :
         join_practice_room_of(room_code, participant_name)
    /\ UNCHANGED not_room

\* ------------------------------------------- requests running concurrently
\* No lock guards active_debates, tournaments or practice_rooms, so a request
\* thread can be preempted between the statements of a handler, and it gives
\* way to the other threads while it waits for the generation service.
Idle == [at |-> "idle", id |-> "none", name |-> "none"]
\* names the concurrent join requests carry
RaceNames == {"Bob", "bob", "Cy"}

\* submit_speech up to the evaluate_speech call: the user speech is appended
speech_append_user(t) ==
    /\ pc[t] = "idle"
    /\ active
    /\ Len(debate_session.speeches) + 2 * Cardinality(Threads) <= MaxSpeeches
    /\ \E speech_type \in SpeechTypes :
         debate_session' = [debate_session EXCEPT
                               !.speeches = Append(@, Speech("user", speech_type, "text"))]
    /\ pc' = [pc EXCEPT ![t] = "evaluating"]
    /\ UNCHANGED <<active, ended, response, jpc, builder_vars, tourn_vars, room_vars,
                   session_vars>>

\* evaluate_speech returned: the round check of line 91, then either the
\* generation call or the end check and the return
speech_evaluated(t) ==
    /\ pc[t] = "evaluating"
    /\ IF DebateContinues(debate_session)
       THEN /\ pc' = [pc EXCEPT ![t] = "generating"]
            /\ UNCHANGED debate_session
       ELSE /\ debate_session' = IF DebateShouldEnd(debate_session)
                                 THEN [debate_session EXCEPT !.status = "completed"]
                                 ELSE debate_session
            /\ pc' = [pc EXCEPT ![t] = "idle"]
    /\ UNCHANGED <<active, ended, response, jpc, builder_vars, tourn_vars, room_vars,
                   session_vars>>

\* the generation call returned: the ai speech is appended, round is
\* incremented, the end check runs and the route returns
speech_generated(t) ==
    /\ pc[t] = "generating"
    /\ \E gen_ok \in BOOLEAN :
         LET s2 == [debate_session EXCEPT
                      !.speeches = Append(@, Speech("ai", "constructive",
                                          generate_ai_debater_response(gen_ok))),
                      !.round = @ + 1]
         IN  debate_session' = IF DebateShouldEnd(s2)
                               THEN [s2 EXCEPT !.status = "completed"] ELSE s2
    /\ pc' = [pc EXCEPT ![t] = "idle"]
    /\ UNCHANGED <<active, ended, response, jpc, builder_vars, tourn_vars, room_vars,
                   session_vars>>

\* join_tournament up to the end of its checks
join_tournament_check(t) ==
    /\ jpc[t] = Idle
    /\ \E id \in TournamentCodes, name \in RaceNames :
         IF JoinTournamentError(id, name) # ""
         THEN UNCHANGED jpc
         ELSE jpc' = [jpc EXCEPT ![t] = [at |-> "join_tournament", id |-> id, name |-> name]]
    /\ UNCHANGED <<pc, debate_vars, builder_vars, tourn_vars, room_vars,
                   session_vars>>

\* join_tournament from the append on: append, start at the threshold
join_tournament_append(t) ==
    /\ jpc[t].at = "join_tournament"
    /\ tournaments' = [tournaments EXCEPT ![jpc[t].id] = JoinTournament(@, jpc[t].name)]
    /\ jpc' = [jpc EXCEPT ![t] = Idle]
    /\ UNCHANGED <<pc, tournament_brackets, t_response, debate_vars, builder_vars, room_vars,
                   session_vars>>

\* join_practice_room up to the end of its checks
join_practice_room_check(t) ==
    /\ jpc[t] = Idle
    /\ \E room_code \in RoomCodes, name \in RaceNames :
         IF JoinRoomError(room_code, name) # ""
         THEN UNCHANGED jpc
         ELSE jpc' = [jpc EXCEPT ![t] = [at |-> "join_practice_room", id |-> room_code, name |-> name]]
    /\ UNCHANGED <<pc, debate_vars, builder_vars, tourn_vars, room_vars,
                   session_vars>>

\* join_practice_room from the append on
join_practice_room_append(t) ==
    /\ jpc[t].at = "join_practice_room"
    /\ practice_rooms' = [practice_rooms EXCEPT ![jpc[t].id] = JoinRoom(@, jpc[t].name)]
    /\ jpc' = [jpc EXCEPT ![t] = Idle]
    /\ UNCHANGED <<pc, r_response, debate_vars, builder_vars, tourn_vars,
                   session_vars>>

\* ------------------------------------------------------------ the routes
\* app.start_debate
start_debate ==
    /\ ~active
    /\ \E user_position \in Positions, gen_ok \in BOOLEAN :
         /\ debate_session' = StartDebate(user_position, gen_ok)
         /\ response' = [NoResponse EXCEPT !.op = "start", !.code = 200]
    /\ active' = TRUE
    /\ ended' = FALSE
    /\ UNCHANGED not_debate

\* app.submit_speech with a non-empty speech within the size limits
submit_speech ==
    /\ Len(debate_session.speeches) + 2 <= MaxSpeeches
    /\ UNCHANGED not_debate
    /\ IF ~active
       THEN /\ response' = [NoResponse EXCEPT !.op = "speech", !.code = 400]
            /\ UNCHANGED <<debate_session, active, ended>>
       ELSE \E speech_type \in SpeechTypes, eval_ok \in BOOLEAN,
               gen_ok \in BOOLEAN, score \in Scores :
              /\ debate_session' = ProcessUserSpeech(debate_session, speech_type, gen_ok)
              /\ response' = [NoResponse EXCEPT
                                 !.op = "speech", !.code = 200,
                                 !.ai_response = AiResponseOf(debate_session, gen_ok),
                                 !.default_eval = evaluate_speech(eval_ok, score).default]
              /\ UNCHANGED <<active, ended>>

\* app.submit_poi with a non-empty poi
submit_poi ==
    /\ active
    /\ Len(debate_session.pois) < MaxPois
    /\ \E reply \in PoiReplies :
         debate_session' = ProcessPoi(debate_session, reply)
    /\ response' = [NoResponse EXCEPT !.op = "poi", !.code = 200]
    /\ UNCHANGED <<active, ended, not_debate>>

\* DebateEngine.end_debate called on the session object; its one caller ends
\* a session once
end_debate ==
    /\ active
    /\ ~ended
    /\ Len(UserSpeeches(debate_session)) <= MaxEvaluated
    /\ debate_session' = EndDebate(debate_session)
    /\ ended' = TRUE
    /\ \E total_score \in TotalScores[Len(UserSpeeches(debate_session))] :
         response' = [NoResponse EXCEPT
                        !.op = "end", !.code = 200,
                        !.evaluation = FinalEvaluation(debate_session, total_score)]
    /\ UNCHANGED <<active, not_debate>>

\* app.end_debate: ends the session and deletes it from active_debates
end_debate_route ==
    /\ active
    /\ Len(UserSpeeches(debate_session)) <= MaxEvaluated
    /\ debate_session' = NoSession
    /\ active' = FALSE
    /\ ended' = FALSE
    /\ \E total_score \in TotalScores[Len(UserSpeeches(debate_session))] :
         response' = [NoResponse EXCEPT
                        !.op = "end_route", !.code = 200,
                        !.evaluation = FinalEvaluation(debate_session, total_score)]
    /\ UNCHANGED not_debate

\* no debate started
DebateIdle ==
    /\ debate_session = NoSession
    /\ active = FALSE
    /\ ended = FALSE
    /\ response = NoResponse

\* no bracket builder running
BuilderIdle ==
    /\ participants_in = <<>>
    /\ bracket = NoBracket

\* empty tournament registries
TournamentsIdle ==
    /\ tournaments = NoTournaments
    /\ tournament_brackets = NoLegacy
    /\ t_response = NoTResponse

\* no rooms
RoomsIdle ==
    /\ practice_rooms = NoRooms
    /\ r_response = NoTResponse

\* no request in flight
ThreadsIdle ==
    /\ pc = [t \in Threads |-> "idle"]
    /\ jpc = [t \in Threads |-> Idle]

\* ------------------------------------------------------------ achievements
\* a definition without criteria keys: achievement.get('criteria', {})
NoCriteria == [k \in {} |-> 0]

\* DebateEngine._load_achievements: id, criteria and points of each entry
Achievements ==
    << [id |-> "first_lesson", criteria |-> [min_lessons |-> 1], points |-> 10],
       [id |-> "quick_learner", criteria |-> [min_lessons |-> 5], points |-> 25],
       [id |-> "debate_scholar", criteria |-> [min_lessons |-> 10], points |-> 50],
       [id |-> "first_debate", criteria |-> [min_debates |-> 1], points |-> 20],
       [id |-> "debate_veteran", criteria |-> [min_debates |-> 10], points |-> 100],
       [id |-> "high_scorer", criteria |-> [avg_score |-> 85], points |-> 75],
       [id |-> "point_collector", criteria |-> [min_points |-> 500], points |-> 50],
       [id |-> "master_debater", criteria |-> [min_points |-> 1000], points |-> 200] >>

\* len(self._load_lessons())
TotalLessons == 9
\* the ids of the lessons whose difficulty is 'advanced'
AdvancedLessons == {"debate_advanced_1", "debate_advanced_2", "debate_advanced_3"}
\* the score a debate of a perfect streak must reach
PerfectScore == 95
\* the points quick_start asks for
QuickStartPoints == 50

\* session['user_profile'] as init_session creates it
NewProfile ==
    [points |-> 0, achievements |-> <<>>, completed_lessons |-> <<>>,
     debate_history |-> <<>>]

NoPResponse ==
    [op |-> None, code |-> 0, achievements |-> <<>>, met |-> FALSE,
     new_points |-> 0]

\* sum(debate['result']['overall_score'] for debate in history)
RECURSIVE ScoreSum(_)
ScoreSum(history) ==
    IF history = <<>> THEN 0
    ELSE history[1].result.overall_score + ScoreSum(Tail(history))

\* debate_history[-n:]
LastN(history, n) ==
    IF n = 0 \/ n >= Len(history) THEN history
    ELSE SubSeq(history, Len(history) - n + 1, Len(history))

\* the completed lessons that get_lesson finds with difficulty 'advanced'
AdvancedCompleted(completed_lessons) ==
    SelectSeq(completed_lessons, LAMBDA l : l \in AdvancedLessons)

\* set(debate.get('format', '') ...): history entries carry no format key
UsedFormats(history) == IF history = <<>> THEN {} ELSE {""}

\* the criteria check answering True whenever min_lessons is met
CheckAchievementCriteriaLessonsOnly(achievement, profile) ==
    LET criteria == achievement.criteria
    IN  IF "min_lessons" \in DOMAIN criteria
        THEN Len(profile.completed_lessons) >= criteria.min_lessons
        ELSE TRUE

\* DebateEngine._check_achievement_criteria
CheckAchievementCriteria(achievement, profile) ==
    LET criteria == achievement.criteria
        debate_history == profile.debate_history
        completed_lessons == profile.completed_lessons
        Has(k) == k \in DOMAIN criteria
    IN  IF Has("min_debates") /\ Len(debate_history) < criteria.min_debates
        THEN FALSE
        ELSE IF Has("min_points") /\ profile.points < criteria.min_points
        THEN FALSE
        ELSE IF Has("min_lessons") /\ Len(completed_lessons) < criteria.min_lessons
        THEN FALSE
        \* entries of debate_history carry no 'pois' key: the total is 0
        ELSE IF Has("min_pois") /\ 0 < criteria.min_pois
        THEN FALSE
        ELSE IF Has("avg_score") /\ debate_history = <<>>
        THEN FALSE
        ELSE IF Has("avg_score")
                /\ ScoreSum(debate_history) < criteria.avg_score * Len(debate_history)
        THEN FALSE
        ELSE IF Has("different_formats")
                /\ Cardinality(UsedFormats(debate_history)) < criteria.different_formats
        THEN FALSE
        ELSE IF Has("min_advanced_lessons")
                /\ Len(AdvancedCompleted(completed_lessons)) < criteria.min_advanced_lessons
        THEN FALSE
        ELSE IF Has("perfect_streak")
                /\ LET recent == LastN(debate_history, criteria.perfect_streak)
                   IN  \/ Len(recent) < criteria.perfect_streak
                       \/ \E n \in 1..Len(recent) :
                            recent[n].result.overall_score < PerfectScore
        THEN FALSE
        ELSE IF Has("all_formats") /\ criteria.all_formats
                /\ ~({"british_parliamentary", "policy_debate", "public_forum"}
                        \subseteq UsedFormats(debate_history))
        THEN FALSE
        ELSE IF Has("all_lessons") /\ criteria.all_lessons
                /\ Len(completed_lessons) < TotalLessons
        THEN FALSE
        ELSE IF Has("quick_start")
                /\ (completed_lessons = <<>> \/ profile.points < QuickStartPoints)
        THEN FALSE
        ELSE IF Has("score_improvement") /\ Len(debate_history) < 2
        THEN FALSE
        ELSE IF Has("score_improvement")
                /\ debate_history[Len(debate_history)].result.overall_score
                   - debate_history[Len(debate_history) - 1].result.overall_score
                   < criteria.score_improvement
        THEN FALSE
        ELSE IF Has("debate_marathon")
                /\ Len(LastN(debate_history, criteria.debate_marathon))
                   < criteria.debate_marathon
        THEN FALSE
        ELSE TRUE

\* [a.get('id') for a in user_profile['achievements']]
HeldIds(profile) ==
    {profile.achievements[n].id : n \in 1..Len(profile.achievements)}

\* DebateEngine.check_achievements: the value it returns
CheckAchievements(profile) ==
    SelectSeq(Achievements,
              LAMBDA a : /\ a.id \notin HeldIds(profile)
                         /\ CheckAchievementCriteria(a, profile))

\* definitions handed to the criteria check: the loaded ones and one per
\* further criteria key the check knows, one with two keys, one with none
CriteriaInputs ==
    {Achievements[n] : n \in 1..Len(Achievements)}
    \cup {[id |-> "x", criteria |-> c, points |-> 5] :
            c \in {NoCriteria,
                   [min_lessons |-> 1, min_points |-> 500],
                   [min_pois |-> 1],
                   [different_formats |-> 1],
                   [min_advanced_lessons |-> 1],
                   [perfect_streak |-> 2],
                   [all_formats |-> TRUE],
                   [all_formats |-> FALSE],
                   [all_lessons |-> TRUE],
                   [quick_start |-> TRUE],
                   [score_improvement |-> 40],
                   [debate_marathon |-> 2]}}

\* DebateEngine._check_achievement_criteria applied to the session's profile
check_achievement_criteria ==
    /\ \E achievement \in CriteriaInputs :
         p_response' = [NoPResponse EXCEPT
                           !.op = "criteria", !.achievements = <<achievement>>,
                           !.met = CheckAchievementCriteria(achievement, user_profile)]
    /\ UNCHANGED user_profile
    /\ UNCHANGED not_profile

\* a check that keeps what it found in the profile it was given
check_achievements_keeping ==
    /\ p_response' = [NoPResponse EXCEPT
                         !.op = "check",
                         !.achievements = CheckAchievements(user_profile)]
    /\ user_profile' = [user_profile EXCEPT
                           !.achievements = @ \o CheckAchievements(user_profile)]
    /\ UNCHANGED not_profile

\* DebateEngine.check_achievements applied to the session's profile
check_achievements ==
    /\ p_response' = [NoPResponse EXCEPT
                         !.op = "check",
                         !.achievements = CheckAchievements(user_profile)]
    /\ UNCHANGED user_profile
    /\ UNCHANGED not_profile

\* request.form.get('lesson_id'): two lessons, or none
LessonInputs == {"debate_basics_1", "debate_advanced_1", ""}
\* feedback.get('points', 10): the digits of the model's POINTS line
FeedbackPoints == {10, 500}

\* lesson_id in session['user_profile']['completed_lessons']
LessonCompleted(profile, lesson_id) ==
    \E n \in 1..Len(profile.completed_lessons) :
        profile.completed_lessons[n] = lesson_id

\* POST /learning/complete
complete_lesson_of(lesson_id, feedback_points) ==
    LET learned == [user_profile EXCEPT
                       !.completed_lessons = Append(@, lesson_id),
                       !.points = @ + feedback_points]
        achievements == CheckAchievements(learned)
    IN  /\ UNCHANGED not_profile
        /\ IF lesson_id = ""
           THEN /\ p_response' = [NoPResponse EXCEPT !.op = "lesson", !.code = 400]
                /\ UNCHANGED user_profile
           ELSE IF LessonCompleted(user_profile, lesson_id)
           THEN /\ p_response' = [NoPResponse EXCEPT
                                     !.op = "lesson", !.code = 200,
                                     !.new_points = user_profile.points]
                /\ UNCHANGED user_profile
           ELSE /\ user_profile' = [learned EXCEPT
                                       !.achievements = @ \o achievements]
                /\ p_response' = [NoPResponse EXCEPT
                                     !.op = "lesson", !.code = 200,
                                     !.achievements = achievements,
                                     !.new_points = learned.points]

complete_lesson ==
    \E lesson_id \in LessonInputs, feedback_points \in FeedbackPoints :
        complete_lesson_of(lesson_id, feedback_points)

\* the loop of the achievements route: append what is not in the list yet
\* and add its points
RECURSIVE AddAchievements(_, _)
AddAchievements(profile, new_achievements) ==
    IF new_achievements = <<>> THEN profile
    ELSE LET achievement == new_achievements[1]
             present == \E n \in 1..Len(profile.achievements) :
                           profile.achievements[n] = achievement
         IN  AddAchievements(
                 IF present THEN profile
                 ELSE [profile EXCEPT !.achievements = Append(@, achievement),
                                      !.points = @ + achievement.points],
                 Tail(new_achievements))

\* POST /api/achievements/check
check_achievements_route ==
    LET new_achievements == CheckAchievements(user_profile)
    IN  /\ user_profile' = AddAchievements(user_profile, new_achievements)
        /\ p_response' = [NoPResponse EXCEPT
                             !.op = "check_route", !.code = 200,
                             !.achievements = new_achievements]
        /\ UNCHANGED not_profile

\* avg_score values a final evaluation may carry
AverageInputs == {60, 100}
\* the final evaluation of a debate whose adjusted scores average avg_score
EvaluationOf(avg_score) ==
    [overall_score |-> avg_score, points |-> avg_score \div 2]

\* POST /debate/end, the part that writes the profile
end_debate_profile ==
    /\ Len(user_profile.debate_history) < MaxDebates
    /\ \E avg_score \in AverageInputs :
         LET final_evaluation == EvaluationOf(avg_score)
         IN  /\ user_profile' = [user_profile EXCEPT
                    !.debate_history = Append(@,
                        [result |-> final_evaluation,
                         points_earned |-> final_evaluation.points]),
                    !.points = @ + final_evaluation.points]
             /\ p_response' = [NoPResponse EXCEPT
                                  !.op = "end", !.code = 200,
                                  !.new_points = final_evaluation.points]
    /\ UNCHANGED not_profile

\* a fresh session
ProfileIdle ==
    /\ user_profile = NewProfile
    /\ p_response = NoPResponse


\* ------------------------------------------------- clients and sessions
\* browser sessions, each with its own session cookie
Clients == {"c1", "c2"}
\* session['current_debate_id'] not set
NoDebateId == -1
\* active_debates = {}
NoDebates == [id \in {} |-> NoSession]

\* request.form.get('motion'): each client debates a motion of its own
MotionOf(c) == IF c = "c1" THEN "motion of c1" ELSE "motion of c2"
\* request.form.get('speech'): what the client wrote
SpeechOf(c) == IF c = "c1" THEN "speech of c1" ELSE "speech of c2"

\* f"debate_{int(datetime.now().timestamp())}": the id is the clock second
DebateId(second) == second

\* what start_debate stores: the session's id and motion beside the fields
\* of the turn model
StoredDebate(id, motion, user_position) ==
    [id |-> id, motion |-> motion, debate |-> StartDebate(user_position, TRUE)]

\* the clock reaches the next second
tick ==
    /\ now < MaxClock
    /\ now' = now + 1
    /\ UNCHANGED <<active_debates, current_debate_id, not_client>>

\* POST /debate/start of client c
client_start_debate_of(c) ==
    \E user_position \in Positions :
        LET debate_id == DebateId(now)
            stored == StoredDebate(debate_id, MotionOf(c), user_position)
        IN  /\ active_debates' =
                  [id \in DOMAIN active_debates \cup {debate_id} |->
                     IF id = debate_id THEN stored ELSE active_debates[id]]
            /\ current_debate_id' = [current_debate_id EXCEPT ![c] = debate_id]
            /\ UNCHANGED <<now, not_client>>

client_start_debate == \E c \in Clients : client_start_debate_of(c)

\* POST /debate/speech of client c: the speech goes to the session that
\* active_debates holds under the id of the client's cookie
client_submit_speech_of(c) ==
    LET debate_id == current_debate_id[c]
    IN  /\ debate_id # NoDebateId
        /\ debate_id \in DOMAIN active_debates
        /\ Len(active_debates[debate_id].debate.speeches) + 2 <= MaxClientSpeeches
        /\ LET current_debate == active_debates[debate_id].debate
               n == Len(current_debate.speeches) + 1
               result == ProcessUserSpeech(current_debate, "constructive", TRUE)
           IN  active_debates' =
                 [active_debates EXCEPT
                    ![debate_id].debate =
                        [result EXCEPT !.speeches[n].content = SpeechOf(c)]]
        /\ UNCHANGED <<current_debate_id, now, not_client>>

client_submit_speech == \E c \in Clients : client_submit_speech_of(c)

\* no debate started, no cookie set
ClientsIdle ==
    /\ active_debates = NoDebates
    /\ current_debate_id = [c \in Clients |-> NoDebateId]
    /\ now = 0


Init ==
    /\ ProfileIdle
    /\ ClientsIdle
    /\ DebateIdle
    /\ BuilderIdle
    /\ TournamentsIdle
    /\ RoomsIdle
    /\ ThreadsIdle

Next ==
    \/ start_debate
    \/ submit_speech
    \/ submit_poi
    \/ end_debate
    \/ end_debate_route

Spec == Init /\ [][Next]_vars

\* the debate routes alone, as one client calls them
NextRoutes ==
    \/ start_debate
    \/ submit_speech
    \/ submit_poi
    \/ end_debate_route

SpecRoutes == Init /\ [][NextRoutes]_vars

\* the bracket builders applied to every bounded participant list
InitBracket ==
    /\ ProfileIdle
    /\ ClientsIdle
    /\ DebateIdle
    /\ TournamentsIdle
    /\ RoomsIdle
    /\ ThreadsIdle
    /\ participants_in \in ParticipantLists
    /\ bracket = NoBracket

NextBracket == build_bracket

SpecBracket == InitBracket /\ [][NextBracket]_vars

\* the tournament registry, requests served one at a time
NextTournament ==
    \/ create_tournament
    \/ join_tournament
    \/ complete_tournament_match

SpecTournament == Init /\ [][NextTournament]_vars

\* the legacy bracket registry, requests served one at a time
NextLegacy ==
    \/ create_tournament_bracket
    \/ api_update_match_result

SpecLegacy == Init /\ [][NextLegacy]_vars

\* tournaments and rooms created and joined, requests served one at a time
NextRegistry ==
    \/ create_tournament
    \/ join_tournament
    \/ create_practice_room
    \/ join_practice_room

SpecRegistry == Init /\ [][NextRegistry]_vars

\* leaderboards asked of the registries tournaments leave behind
InitLeaderboard ==
    /\ ProfileIdle
    /\ ClientsIdle
    /\ DebateIdle
    /\ BuilderIdle
    /\ RoomsIdle
    /\ ThreadsIdle
    /\ tournaments \in BoardRegistries
    /\ tournament_brackets = NoLegacy
    /\ t_response = NoTResponse

NextLeaderboard == get_tournament_leaderboard_route

SpecLeaderboard == InitLeaderboard /\ [][NextLeaderboard]_vars

\* one client's profile under lessons, debates and achievement checks
NextProfile ==
    \/ complete_lesson
    \/ end_debate_profile
    \/ check_achievements
    \/ check_achievement_criteria
    \/ check_achievements_route

SpecProfile == Init /\ [][NextProfile]_vars

\* two clients starting debates and speaking while the clock runs
NextClients ==
    \/ tick
    \/ client_start_debate
    \/ client_submit_speech

SpecClients == Init /\ [][NextClients]_vars

\* speech submissions of two request threads against one session
NextSpeechRace ==
    \/ start_debate
    \/ \E t \in Threads : speech_append_user(t)
    \/ \E t \in Threads : speech_evaluated(t)
    \/ \E t \in Threads : speech_generated(t)

SpecSpeechRace == Init /\ [][NextSpeechRace]_vars

\* joins of two request threads against one tournament and one room
NextJoinRace ==
    \/ create_tournament
    \/ create_practice_room
    \/ \E t \in Threads : join_tournament_check(t)
    \/ \E t \in Threads : join_tournament_append(t)
    \/ \E t \in Threads : join_practice_room_check(t)
    \/ \E t \in Threads : join_practice_room_append(t)

SpecJoinRace == Init /\ [][NextJoinRace]_vars

\* ------------------------------------------------------------ properties
UserSpeechCount(s) == Cardinality({i \in 1..Len(s.speeches) : s.speeches[i].speaker = "user"})
AiSpeechCount(s) == Cardinality({i \in 1..Len(s.speeches) : s.speeches[i].speaker = "ai"})

\* C1: in every state of a started session, round <= len(speech_order), and
\* status is 'completed' exactly when round has reached len(speech_order) or
\* end_debate has been called.
C1_RoundBoundedStatusExact ==
    debate_session.status # "none" =>
        /\ debate_session.round <= SpeechOrderLen
        /\ (debate_session.status = "completed")
             <=> (debate_session.round >= SpeechOrderLen \/ ended)

\* a session completed by reaching the end of the speech order, not by end_debate,
\* that took further submissions afterwards
C1_Witness ==
    /\ debate_session.status = "completed"
    /\ debate_session.round = SpeechOrderLen
    /\ ~ended
    /\ UserSpeechCount(debate_session) > SpeechOrderLen - 1

\* C2: a speech submitted to a session whose status is already 'completed' is
\* rejected as a caller error and appends nothing.
C2_CompletedRejectsSpeech ==
    [][(active /\ debate_session.status = "completed" /\ submit_speech)
        => (debate_session' = debate_session /\ response'.code = 400)]_vars

\* C8 as claimed: a failed external call leaves the session as it was and
\* the caller gets a failure.
C8_FailureLeavesSessionUnchanged ==
    [][(active /\ submit_speech
        /\ (response'.default_eval \/ response'.ai_response = "technical_difficulties"))
        => (debate_session' = debate_session /\ response'.code >= 500)]_vars

\* C8 amended: a failed external call is absorbed. The user speech is
\* appended; while the debate continues the ai speech is appended too (the
\* fixed apology when generation failed) and round advances by one; the
\* caller gets a success carrying the default evaluation when evaluation failed.
C8_FailureAbsorbed ==
    [][(active /\ submit_speech
        /\ (response'.default_eval \/ response'.ai_response = "technical_difficulties"))
        => LET n == Len(debate_session.speeches)
               after == debate_session'.speeches
           IN  /\ response'.code = 200
               /\ Len(after) > n
               /\ SubSeq(after, 1, n) = debate_session.speeches
               /\ after[n + 1].speaker = "user"
               /\ IF debate_session.round < SpeechOrderLen
                  THEN /\ Len(after) = n + 2
                       /\ after[n + 2].speaker = "ai"
                       /\ after[n + 2].content = response'.ai_response
                       /\ debate_session'.round = debate_session.round + 1
                  ELSE /\ Len(after) = n + 1
                       /\ debate_session'.round = debate_session.round]_vars

\* a submission whose evaluation and generation both failed has been applied
C8_Witness ==
    /\ response.op = "speech"
    /\ response.default_eval
    /\ response.ai_response = "technical_difficulties"
    /\ Len(debate_session.speeches) >= 2
    /\ debate_session.speeches[Len(debate_session.speeches)].content = "technical_difficulties"
    /\ debate_session.speeches[Len(debate_session.speeches) - 1].speaker = "user"

\* C3: for every participant count n >= 2 the single elimination bracket has
\* exactly ceil(log2(n)) rounds and its last round holds exactly one match.
C3_RoundsAreCeilLog2 ==
    (bracket.type = "single_elimination" /\ Len(participants_in) >= 2) =>
        /\ Len(bracket.rounds) = CeilLog2(Len(participants_in))
        /\ Len(bracket.rounds[Len(bracket.rounds)].matches) = 1

\* every match of round r of bracket b has a recorded result
RoundResultsRecorded(b, r) ==
    \A m \in 1..Len(b.rounds[r].matches) : b.rounds[r].matches[m].status = "completed"

\* round r + 1 holds, slot by slot, the winners of round r
NextRoundHoldsWinners(b, r) ==
    LET prev == b.rounds[r].matches
        next == b.rounds[r + 1].matches
    IN  \A m \in 1..Len(next) :
           /\ 2 * m - 1 <= Len(prev) /\ next[m].participant1 = prev[2 * m - 1].winner
           /\ 2 * m <= Len(prev) => next[m].participant2 = prev[2 * m].winner

\* C4: once a result has been recorded for every match of round k, round k is
\* 'completed' and every slot of round k+1 holds the winner of the
\* corresponding round-k match; a later round with an unresolved slot is 'waiting'.
C4_RoundCompletesAndAdvances ==
    \A id \in DOMAIN tournaments :
      LET b == tournaments[id].brackets
      IN  \A r \in 1..Len(b.rounds) :
            /\ RoundResultsRecorded(b, r) =>
                  /\ b.rounds[r].status = "completed"
                  /\ r < Len(b.rounds) => NextRoundHoldsWinners(b, r)
            /\ (r > 1 /\ \E m \in 1..Len(b.rounds[r].matches) :
                            None \in {b.rounds[r].matches[m].participant1,
                                      b.rounds[r].matches[m].participant2})
                  => b.rounds[r].status = "waiting"

\* C5: once results have been recorded for all matches of an active
\* tournament (its final round included), the tournament is 'completed'.
C5_TournamentCompletes ==
    \A id \in DOMAIN tournaments :
      LET t == tournaments[id]
      IN  (/\ t.brackets # NoBracket
           /\ t.brackets.rounds # <<>>
           /\ \A r \in 1..Len(t.brackets.rounds) : RoundResultsRecorded(t.brackets, r))
          => t.status = "completed"

\* what C9 says a completed match does to tournament t, given the winner and
\* scores the match records
CompletionEffect(t, after, match, reply) ==
    /\ after.completed_matches = t.completed_matches + 1
    /\ reply.status = "completed"
    /\ reply.winner \in {match.participant1, match.participant2}
    /\ Len(after.participants) = Len(t.participants)
    /\ Cardinality({i \in 1..Len(t.participants) :
                       t.participants[i].name \in {match.participant1, match.participant2}}) = 2
    /\ \A i \in 1..Len(t.participants) :
          LET p == t.participants[i]
              q == after.participants[i]
              own == IF p.name = match.participant1 THEN reply.scores[1] ELSE reply.scores[2]
          IN  IF p.name \in {match.participant1, match.participant2}
              THEN /\ q.name = p.name
                   /\ q.matches_played = p.matches_played + 1
                   /\ q.total_points = p.total_points + own
                   /\ q.matches_won = p.matches_won + (IF reply.winner = p.name THEN 1 ELSE 0)
              ELSE q = p

\* C9: completing a match adds 1 to completed_matches, adds 1 to
\* matches_played and the own score to total_points of both participants of the
\* match, adds 1 to matches_won of the winner only, and leaves every other
\* participant's record unchanged.
C9_CompletionUpdatesStats ==
    [][\A id \in DOMAIN tournaments :
         \A match_id \in MatchIdInputs(tournaments[id].brackets) :
           (/\ t_response'.op = "complete"
            /\ FindMatch(tournaments[id].brackets, match_id) # <<>>
            /\ complete_tournament_match_of(id, match_id, TRUE))
           => LET pos == FindMatch(tournaments[id].brackets, match_id)
              IN  CompletionEffect(tournaments[id], tournaments'[id],
                     tournaments[id].brackets.rounds[pos[1]].matches[pos[2]],
                     tournaments'[id].brackets.rounds[pos[1]].matches[pos[2]])]_vars

\* a match has been completed: one participant has a win, one played and
\* lost, and one has not played
C9_Witness ==
    /\ t_response.op = "complete" /\ t_response.message = "Failed to complete match"
    /\ \E id \in DOMAIN tournaments :
         LET ps == tournaments[id].participants
         IN  /\ tournaments[id].completed_matches >= 1
             /\ \E i, j, k \in 1..Len(ps) :
                   /\ ps[i].matches_won >= 1
                   /\ ps[j].matches_played >= 1 /\ ps[j].matches_won = 0
                   /\ ps[k].matches_played = 0 /\ ps[k].total_points = 0

\* the match id occurs in no round of the bracket
MatchAbsent(b, match_id) ==
    \A r \in 1..Len(b.rounds) :
       \A m \in 1..Len(b.rounds[r].matches) : b.rounds[r].matches[m].id # match_id

\* C10: recording a result for a match id that occurs in no round of the
\* bracket, or for an unknown tournament id, is answered not found (404) and
\* changes nothing in the registries.
C10_AbsentMatchIsNotFound ==
    [][/\ \A code \in LegacyCodeInputs, match_id \in LegacyMatchIdInputs,
            winner \in LegacyWinnerInputs :
            (/\ api_update_match_result_of(code, match_id, winner)
             /\ code \in DOMAIN tournament_brackets
                   => MatchAbsent(tournament_brackets[code], match_id))
            => (t_response'.code = 404 /\ UNCHANGED <<tournaments, tournament_brackets>>)
       /\ \A id \in TournamentIdInputs :
            \A match_id \in (IF id \in DOMAIN tournaments
                              THEN MatchIdInputs(tournaments[id].brackets)
                              ELSE {AbsentMatchId}) :
            (/\ complete_tournament_match_of(id, match_id, TRUE)
             /\ id \in DOMAIN tournaments
                   => (/\ tournaments[id].brackets # NoBracket
                       /\ MatchAbsent(tournaments[id].brackets, match_id)))
            => (t_response'.code = 404 /\ UNCHANGED <<tournaments, tournament_brackets>>)]_vars

\* ai speeches among the first i speeches
AiBefore(s, i) == Cardinality({j \in 1..(i - 1) : s.speeches[j].speaker = "ai"})

\* the speeches list is one a serial execution produces: an ai opening only
\* when the ai speaks first, every user speech made while the debate is in
\* progress directly followed by its ai response, and one round per ai speech
SerialShape(s) ==
    /\ s.round = 1 + AiSpeechCount(s)
    /\ \A i \in 1..Len(s.speeches) :
          IF s.speeches[i].speaker = "user"
          THEN 1 + AiBefore(s, i) < SpeechOrderLen
                 => (i < Len(s.speeches) /\ s.speeches[i + 1].speaker = "ai")
          ELSE IF i = 1 THEN s.user_position = "opposition"
               ELSE s.speeches[i - 1].speaker = "user"

\* C6: concurrent submissions against one session take effect one at a time:
\* whenever no submission is in flight the speeches list is one a serial
\* execution produces, and round never exceeds len(speech_order).
C6_SubmissionsSerialized ==
    debate_session.status # "none" =>
        /\ debate_session.round <= SpeechOrderLen
        /\ (\A t \in Threads : pc[t] = "idle") => SerialShape(debate_session)

\* no two participants of the list have names equal ignoring case
NamesUnique(participants) ==
    \A i, j \in 1..Len(participants) :
       i # j => Lower(participants[i].name) # Lower(participants[j].name)

\* C7: under every interleaving of concurrent joins on one tournament or room
\* the participant count never exceeds max_participants (a list holding its
\* creator alone has taken no join) and no two participants have names equal
\* ignoring case.
C7_JoinsMutuallyExclusive ==
    /\ \A id \in DOMAIN tournaments :
          /\ \/ Len(tournaments[id].participants) <= tournaments[id].max_participants
             \/ Len(tournaments[id].participants) = 1
          /\ NamesUnique(tournaments[id].participants)
    /\ \A code \in DOMAIN practice_rooms :
          /\ \/ Len(practice_rooms[code].participants) <= practice_rooms[code].max_participants
             \/ Len(practice_rooms[code].participants) = 1
          /\ NamesUnique(practice_rooms[code].participants)

\* the conditions under which the contract rejects a tournament join
TournamentJoinRejected(id, name) ==
    \/ id \notin DOMAIN tournaments
    \/ tournaments[id].status # "registration"
    \/ Len(tournaments[id].participants) >= tournaments[id].max_participants
    \/ \E i \in 1..Len(tournaments[id].participants) :
          Lower(tournaments[id].participants[i].name) = Lower(name)

\* the conditions under which the contract rejects a room join
RoomJoinRejected(room_code, name) ==
    \/ room_code \notin DOMAIN practice_rooms
    \/ Len(practice_rooms[room_code].participants) >= practice_rooms[room_code].max_participants
    \/ \E i \in 1..Len(practice_rooms[room_code].participants) :
          Lower(practice_rooms[room_code].participants[i].name) = Lower(name)

\* C11: a join on an unknown tournament, a tournament not in 'registration',
\* a full tournament or a name already present ignoring case, and a join on an
\* unknown room, a full room or a taken name, is answered with an error and
\* leaves the tournament or room as it was.
C11_RejectedJoinChangesNothing ==
    [][/\ \A id \in TournamentIdInputs, name \in JoinNames :
            (TournamentJoinRejected(id, name) /\ join_tournament_of(id, name))
            => (t_response'.code = 400 /\ UNCHANGED <<tournaments, tournament_brackets>>)
       /\ \A room_code \in RoomCodeInputs, name \in JoinNames :
            (RoomJoinRejected(room_code, name) /\ join_practice_room_of(room_code, name))
            => (r_response'.code = 400 /\ UNCHANGED practice_rooms)]_vars

\* a name already present has been refused by a tournament still registering
\* and a full room has refused a join
C11_Witness ==
    /\ t_response.op = "join" /\ t_response.message = "Name already taken in this tournament"
    /\ r_response.op = "join_room" /\ r_response.message = "Room is full"
    /\ \E id \in DOMAIN tournaments :
          /\ tournaments[id].status = "registration"
          /\ Len(tournaments[id].participants) = 2
    /\ \E code \in DOMAIN practice_rooms : Len(practice_rooms[code].participants) = 2

\* C12: after any sequence of create and join operations executed one at a
\* time, no tournament and no room contains two participants whose names are
\* equal ignoring case.
C12_NamesUniqueIgnoringCase ==
    /\ \A id \in DOMAIN tournaments : NamesUnique(tournaments[id].participants)
    /\ \A code \in DOMAIN practice_rooms : NamesUnique(practice_rooms[code].participants)

\* a tournament of three with room for a fourth that has just refused a name
\* already present, beside a room of two
C12_Witness ==
    /\ \E id \in DOMAIN tournaments :
          /\ Len(tournaments[id].participants) = 3
          /\ tournaments[id].max_participants = 4
    /\ \E code \in DOMAIN practice_rooms : Len(practice_rooms[code].participants) = 2
    /\ t_response.message = "Name already taken in this tournament"

\* C13: after any sequence of create and join operations executed one at a
\* time, the number of participants of every room and every tournament is at
\* most its max_participants.
C13_CountWithinCapacity ==
    /\ \A id \in DOMAIN tournaments :
          Len(tournaments[id].participants) <= tournaments[id].max_participants
    /\ \A code \in DOMAIN practice_rooms :
          Len(practice_rooms[code].participants) <= practice_rooms[code].max_participants

\* C14: a tournament stays in 'registration' while participants join, and as
\* soon as a join brings its participant count to max_participants or to the
\* minimum threshold, its bracket is built and its status becomes 'active'.
C14_StartsAtMaxOrThreshold ==
    [][\A id \in DOMAIN tournaments :
         (/\ tournaments[id].status = "registration"
          /\ Len(tournaments'[id].participants) = Len(tournaments[id].participants) + 1)
         => IF \/ Len(tournaments'[id].participants) = tournaments[id].max_participants
               \/ Len(tournaments'[id].participants) >= StartThreshold
            THEN /\ tournaments'[id].status = "active"
                 /\ tournaments'[id].brackets # NoBracket
            ELSE /\ tournaments'[id].status = "registration"
                 /\ tournaments'[id].brackets = NoBracket]_vars

\* the matches of bracket b whose second slot is BYE
ByeMatches(b) ==
    {pos \in MatchPositions(b) : b.rounds[pos[1]].matches[pos[2]].participant2 = "BYE"}

\* C15: in every bracket returned by create_single_elimination_bracket, every
\* match whose second slot is BYE has, at creation, status 'completed' and
\* winner equal to its participant1.
C15_ByeMatchesCompleted ==
    bracket.type = "single_elimination" =>
        \A pos \in ByeMatches(bracket) :
           LET match == bracket.rounds[pos[1]].matches[pos[2]]
           IN  match.status = "completed" /\ match.winner = match.participant1

\* a bracket of five: a participant against BYE in the first round and again
\* in the second, and a match of two BYE entries
C15_Witness ==
    /\ bracket.type = "single_elimination"
    /\ Len(participants_in) = 5
    /\ \E p, q, r \in ByeMatches(bracket) :
          /\ p[1] = 1 /\ bracket.rounds[1].matches[p[2]].participant1 = participants_in[5]
          /\ q[1] = 2 /\ bracket.rounds[2].matches[q[2]].participant1 = participants_in[5]
          /\ r[1] = 1 /\ bracket.rounds[1].matches[r[2]].participant1 = "BYE"

\* C16: for every list of n distinct participants create_round_robin_bracket
\* returns exactly one round, named 'Round Robin', holding exactly n*(n-1)/2
\* matches: one match for each unordered pair of distinct participants, none
\* of them a bye.
C16_RoundRobinAllPairsOnce ==
    bracket.type = "round_robin" =>
        LET n == Len(participants_in)
            names == {participants_in[i] : i \in 1..n}
        IN  /\ Len(bracket.rounds) = 1
            /\ bracket.rounds[1].name = "Round Robin"
            /\ LET matches == bracket.rounds[1].matches
               IN  /\ 2 * Len(matches) = n * (n - 1)
                   /\ \A k \in 1..Len(matches) :
                         /\ matches[k].participant1 \in names
                         /\ matches[k].participant2 \in names
                         /\ matches[k].participant1 # matches[k].participant2
                   /\ \A a, b \in names :
                         a # b => Cardinality({k \in 1..Len(matches) :
                                     {matches[k].participant1, matches[k].participant2} = {a, b}}) = 1

\* a round robin of five participants: ten matches
C16_Witness ==
    /\ bracket.type = "round_robin"
    /\ Len(participants_in) = 5
    /\ Len(bracket.rounds[1].matches) = 10

\* BYE entries among the slots of the matches
ByeSlots(matches) ==
    Cardinality({k \in 1..Len(matches) : matches[k].participant1 = "BYE"})
    + Cardinality({k \in 1..Len(matches) : matches[k].participant2 = "BYE"})

\* C17: a single-elimination bracket built from the 5 participants
\* [A,B,C,D,E] is padded to size 8 with 3 BYE entries, has 4 matches in Round
\* 1, a Round 2 named 'Semi-Final' and a Round 3 named 'Final'.
C17_FiveParticipantsThreeRounds ==
    (bracket.type = "single_elimination" /\ participants_in = <<"A", "B", "C", "D", "E">>) =>
        /\ Len(bracket.rounds) = 3
        /\ Len(bracket.rounds[1].matches) = 4
        /\ ByeSlots(bracket.rounds[1].matches) = 3
        /\ bracket.rounds[2].name = "Semi-Final"
        /\ bracket.rounds[3].name = "Final"

\* C18: in a session whose speech_order has length 8 and in which the human
\* speaks first, after exactly 4 process_user_speech calls the session holds 4
\* user and 4 ai speeches, round = 8 and status = 'completed'.
C18_FourSubmissionsComplete ==
    (debate_session.user_position = "government" /\ UserSpeechCount(debate_session) = 4) =>
        /\ AiSpeechCount(debate_session) = 4
        /\ debate_session.round = SpeechOrderLen
        /\ debate_session.status = "completed"

\* C19: process_poi appends exactly one POI record to the session whatever
\* the decision (ACCEPT or DECLINE) and leaves round, speeches, status and
\* current_speaker unchanged.
C19_PoiAppendsOneRecordOnly ==
    [][submit_poi =>
         LET n == Len(debate_session.pois)
         IN  /\ Len(debate_session'.pois) = n + 1
             /\ SubSeq(debate_session'.pois, 1, n) = debate_session.pois
             /\ debate_session'.pois[n + 1].ai_decision \in {"ACCEPT", "DECLINE"}
             /\ debate_session'.round = debate_session.round
             /\ debate_session'.speeches = debate_session.speeches
             /\ debate_session'.status = debate_session.status
             /\ debate_session'.current_speaker = debate_session.current_speaker]_vars

\* a declined point of information recorded in a debate under way
C19_Witness ==
    /\ response.op = "poi"
    /\ Len(debate_session.pois) >= 1
    /\ debate_session.pois[Len(debate_session.pois)].ai_decision = "DECLINE"
    /\ debate_session.status = "in_progress"
    /\ Len(debate_session.speeches) >= 2

\* C20 as claimed: end_debate sets status to 'completed' and returns an
\* evaluation computed from the human speeches only: the overall score is the
\* average of (s_i - 15) and the points are floor(average / 2); with zero user
\* speeches overall score 0 and 0 points.
C20_EndDebateAveragesExactly ==
    [][end_debate =>
         LET k == UserSpeechCount(debate_session)
             evaluation == response'.evaluation
         IN  /\ debate_session'.status = "completed"
             /\ response'.code = 200
             /\ IF k = 0
                THEN evaluation.overall_score = 0 /\ evaluation.points = 0
                ELSE \E total \in TotalScores[k] :
                        /\ evaluation.overall_score * k = 10 * total
                        /\ evaluation.points * 2 * k <= total
                        /\ total < (evaluation.points + 1) * 2 * k]_vars

\* C20 amended: end_debate sets status to 'completed' and returns an
\* evaluation computed from the human speeches only: the overall score is the
\* average of (s_i - 15) rounded to the nearest tenth (a tie to the even
\* tenth) and the points are the halved average truncated toward zero; with
\* zero user speeches overall score 0 and 0 points.
C20_EndDebateRoundsAndTruncates ==
    [][end_debate =>
         LET k == UserSpeechCount(debate_session)
             evaluation == response'.evaluation
             tenths == evaluation.overall_score
             points == evaluation.points
         IN  /\ debate_session'.status = "completed"
             /\ response'.code = 200
             /\ IF k = 0
                THEN tenths = 0 /\ points = 0
                ELSE \E total \in TotalScores[k] :
                        LET gap == tenths * k - 10 * total
                        IN  /\ 2 * gap <= k /\ -2 * gap <= k
                            /\ (2 * gap = k \/ -2 * gap = k) => tenths % 2 = 0
                            /\ IF total >= 0
                               THEN points * 2 * k <= total /\ total < (points + 1) * 2 * k
                               ELSE (points - 1) * 2 * k < total /\ total <= points * 2 * k]_vars

\* a debate ended after three user speeches scored 50, 50 and 60: the
\* normalized total 115 gives 38.3 and 19 points, ai speeches not counted
C20_Witness ==
    /\ response.op = "end"
    /\ ended
    /\ debate_session.status = "completed"
    /\ UserSpeechCount(debate_session) = 3
    /\ AiSpeechCount(debate_session) >= 3
    /\ response.evaluation = [overall_score |-> 383, points |-> 19, speech_count |-> 3]

RECURSIVE SumOfName(_, _, _)
\* the sum of a field over the records of one name
SumOfName(records, name, field) ==
    IF records = <<>> THEN 0
    ELSE (IF Head(records).name = name THEN Head(records)[field] ELSE 0)
         + SumOfName(Tail(records), name, field)

\* the tournaments of registry ts holding a record of the name that satisfies won
TournamentsOfName(ts, name, won) ==
    {id \in DOMAIN ts : \E i \in 1..Len(ts[id].participants) :
        /\ ts[id].participants[i].name = name
        /\ won => ts[id].participants[i].matches_won > 0}

\* board is the global leaderboard of registry ts
GlobalBoardOf(ts, board) ==
    LET records == AllRecords(ts)
    IN  /\ \A i, j \in 1..Len(board) : i # j => board[i].name # board[j].name
        /\ {board[i].name : i \in 1..Len(board)} = {records[i].name : i \in 1..Len(records)}
        /\ \A i \in 1..Len(board) :
              LET name == board[i].name
              IN  /\ board[i].total_points = SumOfName(records, name, "total_points")
                  /\ board[i].matches_played = SumOfName(records, name, "matches_played")
                  /\ board[i].matches_won = SumOfName(records, name, "matches_won")
                  /\ board[i].tournaments_participated
                        = Cardinality(TournamentsOfName(ts, name, FALSE))
                  /\ board[i].tournaments_won
                        = Cardinality(TournamentsOfName(ts, name, TRUE))

\* C21: the global leaderboard has one entry per participant name, whose
\* total_points, matches_played and matches_won are the sums of that name's
\* records over all tournaments, whose tournaments_participated is the number
\* of tournaments containing that name and whose tournaments_won is the number
\* of those tournaments in which the participant has at least one win.
\* (only the global scope returns entries carrying tournaments_participated,
\* and it leaves the tournaments as they were)
C21_GlobalBoardSumsByName ==
    (/\ t_response.op = "leaderboard"
     /\ t_response.leaderboard # <<>>
     /\ \A n \in 1..Len(t_response.leaderboard) :
           "tournaments_participated" \in DOMAIN t_response.leaderboard[n])
        => GlobalBoardOf(tournaments, t_response.leaderboard)

\* a global leaderboard merging two tournaments: one name with points and a
\* win in both, one present in both that lost its one match, one in a single
\* tournament
C21_Witness ==
    /\ t_response.op = "leaderboard"
    /\ \A n \in 1..Len(t_response.leaderboard) :
          "tournaments_participated" \in DOMAIN t_response.leaderboard[n]
    /\ \E i, j, k \in 1..Len(t_response.leaderboard) :
          LET board == t_response.leaderboard
          IN  /\ board[i].tournaments_participated = 2
              /\ board[i].tournaments_won = 2
              /\ board[i].matches_played = 2
              /\ board[i].total_points > 90
              /\ board[j].tournaments_participated = 2
              /\ board[j].tournaments_won = 0
              /\ board[j].matches_played = 1
              /\ board[k].tournaments_participated = 1

\* C29: computing a leaderboard, in single-tournament scope as well as in
\* global scope, never modifies any participant record stored in a tournament
\* of the registry.
C29_LeaderboardLeavesRecords ==
    [][get_tournament_leaderboard_route => UNCHANGED tournaments]_vars

\* ------------------------------------------------- achievement properties
\* C22: check_achievements is pure: a call leaves the profile as it was, what
\* it returns is a function of the profile, and a second call on the same
\* profile returns what the first returned.
C22_CheckAchievementsPure ==
    [][check_achievements =>
          /\ user_profile' = user_profile
          /\ p_response'.achievements = CheckAchievements(user_profile')
          /\ (p_response.op = "check" => p_response' = p_response)]_vars

\* a check that found the first-debate achievement of a profile not holding it
C22_Witness ==
    /\ p_response.op = "check"
    /\ \E n \in 1..Len(p_response.achievements) :
          p_response.achievements[n].id = "first_debate"
    /\ user_profile.achievements = <<>>
    /\ Len(user_profile.debate_history) = 1

\* what one criteria key asks of a profile
KeyHolds(k, v, profile) ==
    LET history == profile.debate_history
        lessons == profile.completed_lessons
        score(n) == history[n].result.overall_score
    IN  CASE k = "min_debates" -> Len(history) >= v
          [] k = "min_points" -> profile.points >= v
          [] k = "min_lessons" -> Len(lessons) >= v
          [] k = "min_pois" -> 0 >= v
          [] k = "avg_score" ->
                /\ history # <<>>
                /\ ScoreSum(history) >= v * Len(history)
          [] k = "different_formats" ->
                (IF history = <<>> THEN 0 ELSE 1) >= v
          [] k = "min_advanced_lessons" ->
                Cardinality({n \in 1..Len(lessons) : lessons[n] \in AdvancedLessons}) >= v
          [] k = "perfect_streak" ->
                /\ Len(history) >= v
                /\ \A n \in 1..Len(history) :
                      n > Len(history) - v => score(n) >= PerfectScore
          [] k = "all_formats" -> ~v
          [] k = "all_lessons" -> v => Len(lessons) >= TotalLessons
          [] k = "quick_start" ->
                lessons # <<>> /\ profile.points >= QuickStartPoints
          [] k = "score_improvement" ->
                /\ Len(history) >= 2
                /\ score(Len(history)) - score(Len(history) - 1) >= v
          [] k = "debate_marathon" -> Len(history) >= v

\* every criteria key of a definition holds of a profile
AllKeysHold(achievement, profile) ==
    \A k \in DOMAIN achievement.criteria :
        KeyHolds(k, achievement.criteria[k], profile)

\* C23: check_achievements returns exactly the definitions the profile does
\* not hold yet and whose criteria keys all hold, and the criteria check
\* answers true exactly when every key present holds: always, for a
\* definition without keys.
C23_ReturnsExactlyEarned ==
    /\ p_response.op = "check" =>
          p_response.achievements =
              SelectSeq(Achievements,
                        LAMBDA a : /\ \A n \in 1..Len(user_profile.achievements) :
                                        user_profile.achievements[n].id # a.id
                                   /\ AllKeysHold(a, user_profile))
    /\ p_response.op = "criteria" =>
          /\ p_response.met = AllKeysHold(p_response.achievements[1], user_profile)
          /\ (p_response.achievements[1].criteria = NoCriteria => p_response.met)

\* a check that returned first_debate and high_scorer but not first_lesson,
\* which the profile holds, nor point_collector, whose points are missing
C23_Witness ==
    /\ p_response.op = "check"
    /\ {p_response.achievements[n].id : n \in 1..Len(p_response.achievements)}
          = {"first_debate", "high_scorer"}
    /\ HeldIds(user_profile) = {"first_lesson"}
    /\ Len(user_profile.debate_history) = 1

\* the achievements a step added to the profile
Appended(before, after) ==
    SubSeq(after.achievements, Len(before.achievements) + 1,
           Len(after.achievements))

RECURSIVE PointsOf(_)
PointsOf(achievements) ==
    IF achievements = <<>> THEN 0
    ELSE achievements[1].points + PointsOf(Tail(achievements))

\* C24: a lesson completion or an achievement check that appends achievements
\* to the profile adds their points: the points grow by the lesson's points
\* and by the points of every achievement appended.
C24_AppendedAchievementsCredited ==
    [][/\ \A lesson_id \in LessonInputs, feedback_points \in FeedbackPoints :
            complete_lesson_of(lesson_id, feedback_points) =>
                user_profile'.points =
                    user_profile.points
                    + (IF Len(user_profile'.completed_lessons)
                          > Len(user_profile.completed_lessons)
                       THEN feedback_points ELSE 0)
                    + PointsOf(Appended(user_profile, user_profile'))
       /\ check_achievements_route =>
            user_profile'.points =
                user_profile.points
                + PointsOf(Appended(user_profile, user_profile'))]_vars

\* --------------------------------------------------- client properties
\* the user speeches of a stored session
UserContents(stored) ==
    {stored.debate.speeches[n].content :
        n \in {j \in 1..Len(stored.debate.speeches) :
                  stored.debate.speeches[j].speaker = "user"}}

\* C30: starting a debate never replaces a stored session: two clients hold
\* distinct session ids, every client's id leads to the session of its own
\* motion, and a session holds the speeches of the client that started it only.
C30_SessionsIndependent ==
    /\ \A c, d \in Clients :
          (c # d /\ current_debate_id[c] # NoDebateId)
              => current_debate_id[c] # current_debate_id[d]
    /\ \A c \in Clients :
          current_debate_id[c] \in DOMAIN active_debates =>
              /\ active_debates[current_debate_id[c]].motion = MotionOf(c)
              /\ UserContents(active_debates[current_debate_id[c]])
                    \subseteq {SpeechOf(c)}

\* ------------------------------------------------- registry code properties
\* every entry of a registry map is still there, unchanged, in the next state
EntriesKept(registry, after) ==
    \A code \in DOMAIN registry :
        code \in DOMAIN after /\ after[code] = registry[code]

\* C25: creating a tournament bracket never replaces an entry its registry
\* map already holds: the code it is stored under was not in the map.
C25_CreationKeepsEntries ==
    [][create_tournament_bracket =>
          EntriesKept(tournament_brackets, tournament_brackets')]_vars

\* C26: a bracket of any kind built from fewer than 2 participants has no
\* rounds.
C26_FewParticipantsEmptyBracket ==
    (bracket # NoBracket /\ Len(participants_in) < 2) => bracket.rounds = <<>>

\* C27: an active tournament never counts more completed matches than it has
\* matches.
C27_CompletedWithinTotal ==
    \A id \in DOMAIN tournaments :
        tournaments[id].status = "active" =>
            tournaments[id].completed_matches <= tournaments[id].total_matches

RECURSIVE SumField(_, _)
SumField(participants, field) ==
    IF participants = <<>> THEN 0
    ELSE participants[1][field] + SumField(Tail(participants), field)

\* C28: in a started tournament the wins of the participants add up to the
\* completed matches, their played matches to twice that, and nobody has won
\* more matches than played.
C28_StatsAddUp ==
    \A id \in DOMAIN tournaments :
        LET t == tournaments[id]
        IN  t.status = "active" =>
              /\ SumField(t.participants, "matches_won") = t.completed_matches
              /\ SumField(t.participants, "matches_played") = 2 * t.completed_matches
              /\ \A n \in 1..Len(t.participants) :
                    t.participants[n].matches_won <= t.participants[n].matches_played

\* two results recorded in a started tournament of four, one of them level
C28_Witness ==
    \E id \in DOMAIN tournaments :
        /\ tournaments[id].status = "active"
        /\ tournaments[id].completed_matches = 2
        /\ Len(tournaments[id].participants) = 4
        /\ \E pos \in MatchPositions(tournaments[id].brackets) :
              LET match == tournaments[id].brackets.rounds[pos[1]].matches[pos[2]]
              IN  match.status = "completed" /\ match.scores = <<60, 60>>
====
